---- MODULE Spec2Model ----
(***************************************************************************)
(* The dual-instance CDC-ACM class driver of src/usb/usbd_cdc.c as a state *)
(* machine.  One action per entry point of the driver; every action is the *)
(* whole handler.  The generic USB device core, the link layer and the     *)
(* application callbacks are the environment: the calls the driver makes   *)
(* to them in one handler are recorded, in order, in `calls`.              *)
(*                                                                         *)
(* Pointers are tokens (strings); lengths, endpoint addresses, request     *)
(* codes and status codes are integers.                                    *)
(***************************************************************************)
EXTENDS Integers, Sequences, FiniteSets, TLC

(***************************************************************************)
(* Constants of headers that are not part of src/ (cdc_descriptor.h,       *)
(* usbd_cdc.h, usbd_def.h).                                                *)
(***************************************************************************)
NUM_CDC_INSTANCES == 2

CDC_IN_EP == 129

CDC_OUT_EP == 1

CDC_CMD_EP == 130

CDC2_EP_MASK == 4

CDC2_IN_EP == 133

CDC2_OUT_EP == 5

CDC2_CMD_EP == 134

USB_CDC_CIF_NUM0 == 0

USB_CDC_DIF_NUM0 == 1

USB_CDC_CIF_NUM1 == 2

USB_CDC_DIF_NUM1 == 3

USB_REQ_TYPE_MASK == 96

USB_REQ_TYPE_STANDARD == 0

USB_REQ_TYPE_CLASS == 32

USB_REQ_GET_INTERFACE == 10

USB_REQ_SET_INTERFACE == 11

USBD_OK == 0

USBD_BUSY == 1

USBD_FAIL == 2

USBD_SPEED_HIGH == "USBD_SPEED_HIGH"

USBD_SPEED_FULL == "USBD_SPEED_FULL"

(* Literals of usbd_cdc.c *)
REQ_DIR_IN == 128

CMD_NONE == 255

INIT_OK == 0

INIT_FAIL == 1

NULL == "NULL"

Inst == 0 .. (NUM_CDC_INSTANCES - 1)

(***************************************************************************)
(* Bounds of the model.                                                    *)
(***************************************************************************)
MaxCtlLen == 1

MaxTxLen == 1

MaxRxLen == 1

(***************************************************************************)
(* C's & on non-negative integers.                                         *)
(***************************************************************************)
RECURSIVE BitAnd(_, _)
BitAnd(a, b) ==
  IF a = 0 \/ b = 0 THEN 0
  ELSE (a % 2) * (b % 2) + 2 * BitAnd(a \div 2, b \div 2)

(***************************************************************************)
(* State.                                                                  *)
(*   dev_speed, pClassData, pUserData   fields of USBD_HandleTypeDef       *)
(*   ctxPointers                        the global table of app contexts   *)
(*   TxState .. ctrlInst                fields of USBD_CDC_HandleTypeDef,  *)
(*                                      the block pClassData points to     *)
(*   openEPs, rxArmed                   link layer: the open endpoints and *)
(*                                      the bulk-OUT endpoints armed to    *)
(*                                      receive                            *)
(*   fault                              the processor took a fault on an   *)
(*                                      access through a null pClassData   *)
(*   op, ret, calls                     the last entry point called with   *)
(*                                      its arguments, what it returned,   *)
(*                                      and the calls it made, in order    *)
(*   txTrack                            history: per instance, "inflight"  *)
(*                                      from an accepted transmit to the   *)
(*                                      next data-in event of the instance *)
(*                                      ("none"); "dropped" once a deinit, *)
(*                                      "stale" once an init with no       *)
(*                                      deinit, came in between            *)
(*   ctlTrack                           history: the host-to-device class  *)
(*                                      setup staged last (its instance,   *)
(*                                      request code and length) and the   *)
(*                                      instance of the last setup since,  *)
(*                                      "staged" until the next control-   *)
(*                                      data-ready event, then "done"      *)
(***************************************************************************)
VARIABLES dev_speed, pClassData, pUserData, ctxPointers,
          TxState, RxState, TxBuffer, TxLength, RxBuffer, RxLength,
          CmdOpCode, CmdLength, ctrlInst,
          openEPs, rxArmed, fault, op, ret, calls, txTrack, ctlTrack

devVars == <<dev_speed, pUserData>>

xferVars == <<TxState, RxState, TxBuffer, TxLength, RxBuffer, RxLength>>

ctlVars == <<CmdOpCode, CmdLength, ctrlInst>>

hcdcVars == <<xferVars, ctlVars>>

llVars == <<openEPs, rxArmed>>

vars == <<devVars, pClassData, ctxPointers, hcdcVars, llVars, fault, op, ret,
          calls, txTrack, ctlTrack>>

(***************************************************************************)
(* The calls a handler makes to the link layer, to the control-transfer    *)
(* helpers of the device core and to the application callback table.       *)
(***************************************************************************)
USBD_LL_OpenEP(ep, type, mps) == <<"USBD_LL_OpenEP", ep, type, mps>>

USBD_LL_CloseEP(ep) == <<"USBD_LL_CloseEP", ep>>

USBD_LL_PrepareReceive(ep, buf, size) == <<"USBD_LL_PrepareReceive", ep, buf, size>>

USBD_LL_Transmit(ep, buf, len) == <<"USBD_LL_Transmit", ep, buf, len>>

USBD_LL_GetRxDataSize(ep) == <<"USBD_LL_GetRxDataSize", ep>>

USBD_CtlSendData(buf, len) == <<"USBD_CtlSendData", buf, len>>

USBD_CtlPrepareRx(buf, len) == <<"USBD_CtlPrepareRx", buf, len>>

USBD_free(ptr) == <<"USBD_free", ptr>>

Itf_Init(i) == <<"Itf.Init", i>>

Itf_DeInit(ctx) == <<"Itf.DeInit", ctx>>

Itf_Control(ctx, cmd, buf, len) == <<"Itf.Control", ctx, cmd, buf, len>>

\* Receive is handed &hcdc->RxLength[lenOf]; len is the value stored there.
Itf_Receive(ctx, buf, lenOf, len) == <<"Itf.Receive", ctx, buf, lenOf, len>>

Itf_TxComplete(ctx) == <<"Itf.TxComplete", ctx>>

\* The context the application's Init callback stores through ctxPointers + i.
AppCtx(i) == IF i = 0 THEN "ctx0" ELSE "ctx1"

\* The block USBD_malloc returns on success.
HCDC == "hcdc"

\* (uint8_t *)hcdc->data: the staging buffer inside the block.
DataPtr == IF pClassData = NULL THEN "NULL->data" ELSE "hcdc->data"

\* (uint8_t *)req and &ifalt.
ReqPtr == "req"

IfaltPtr == "&ifalt"

\* What the fields hold while no block is allocated: nothing; a placeholder.
NoBuf == NULL

Freed ==
  [TxState |-> [i \in Inst |-> 0], RxState |-> [i \in Inst |-> 0],
   TxBuffer |-> [i \in Inst |-> NoBuf], TxLength |-> [i \in Inst |-> 0],
   RxBuffer |-> [i \in Inst |-> NoBuf], RxLength |-> [i \in Inst |-> 0],
   CmdOpCode |-> 0, CmdLength |-> 0, ctrlInst |-> 0]

BulkInSize == IF dev_speed = USBD_SPEED_HIGH THEN "CDC_DATA_HS_IN_PACKET_SIZE"
              ELSE "CDC_DATA_FS_IN_PACKET_SIZE"

BulkOutSize == IF dev_speed = USBD_SPEED_HIGH THEN "CDC_DATA_HS_OUT_PACKET_SIZE"
               ELSE "CDC_DATA_FS_OUT_PACKET_SIZE"

AllEPs == {CDC_IN_EP, CDC_OUT_EP, CDC_CMD_EP, CDC2_IN_EP, CDC2_OUT_EP, CDC2_CMD_EP}

(***************************************************************************)
(* Instance Router.                                                        *)
(***************************************************************************)
\* EpInstance comparing with the bulk endpoints of instance 1 instead of
\* testing the bit.
EpInstance_ByBulkEp(epnum) == IF epnum \in {CDC2_IN_EP, CDC2_OUT_EP} THEN 1 ELSE 0

\* int instance = 0; if (epnum & CDC2_EP_MASK) instance = 1;
EpInstance(epnum) == IF BitAnd(epnum, CDC2_EP_MASK) # 0 THEN 1 ELSE 0

\* SetupInstance comparing with the data interface of instance 1 only.
SetupInstance_DataOnly(wIndex) == IF wIndex = USB_CDC_DIF_NUM1 THEN 1 ELSE 0

\* if (wIndex == USB_CDC_CIF_NUM1 || wIndex == USB_CDC_DIF_NUM1) instance = 1;
SetupInstance(wIndex) ==
  IF wIndex = USB_CDC_CIF_NUM1 \/ wIndex = USB_CDC_DIF_NUM1 THEN 1 ELSE 0

\* int ep = CDC_IN_EP; if (instance) ep = CDC2_IN_EP;
TxEp(instance) == IF instance # 0 THEN CDC2_IN_EP ELSE CDC_IN_EP

\* RxEp without the test of instance.
RxEp_First(instance) == CDC_OUT_EP

\* int ep = CDC_OUT_EP; if (instance) ep = CDC2_OUT_EP;
RxEp(instance) == IF instance # 0 THEN CDC2_OUT_EP ELSE CDC_OUT_EP

(***************************************************************************)
(* Helpers shared by the handlers.                                         *)
(***************************************************************************)
\* The fields of the block all at once.
SetBlock(b) ==
  /\ TxState' = b.TxState
  /\ RxState' = b.RxState
  /\ TxBuffer' = b.TxBuffer
  /\ TxLength' = b.TxLength
  /\ RxBuffer' = b.RxBuffer
  /\ RxLength' = b.RxLength
  /\ CmdOpCode' = b.CmdOpCode
  /\ CmdLength' = b.CmdLength
  /\ ctrlInst' = b.ctrlInst

\* The bulk-OUT endpoints a sequence of calls arms.
ArmedBy(cs) ==
  {cs[k][2] : k \in {j \in 1 .. Len(cs) : cs[j][1] = "USBD_LL_PrepareReceive"}}

\* An init or a deinit ends the lifetime an accepted transmit was made in.
EndLifetime(how) == [i \in Inst |-> IF txTrack[i] = "inflight" THEN how ELSE txTrack[i]]

\* No host-to-device class setup is staged.
CtlNone == [state |-> "none", inst |-> 0, last |-> 0, opcode |-> 0, len |-> 0]

\* What a handler outside the control path leaves of the history: a
\* delivery is remembered only while it is the last thing that happened.
CtlTrackKeep == IF ctlTrack.state = "done" THEN CtlNone ELSE ctlTrack

\* A handler that reads or writes through hcdc while pClassData is NULL has
\* undefined behaviour there.  Either the access faults and the handler never
\* returns, or it goes through: a write then lands outside the modelled state
\* and a read yields an arbitrary value.
NullFault(name, made) ==
  /\ pClassData = NULL
  /\ fault' = TRUE
  /\ op' = name
  /\ calls' = made
  /\ UNCHANGED <<devVars, pClassData, ctxPointers, hcdcVars, llVars, ret, txTrack, ctlTrack>>

(***************************************************************************)
(* USBD_CDC_Init.  mem is what USBD_malloc returns (NULL or the block), g  *)
(* the indeterminate contents of the block it returns.                     *)
(***************************************************************************)
InitOpens ==
  << USBD_LL_OpenEP(CDC_IN_EP, "BULK", BulkInSize),
     USBD_LL_OpenEP(CDC_OUT_EP, "BULK", BulkOutSize),
     USBD_LL_OpenEP(CDC2_IN_EP, "BULK", BulkInSize),
     USBD_LL_OpenEP(CDC2_OUT_EP, "BULK", BulkOutSize),
     USBD_LL_OpenEP(CDC_CMD_EP, "INTR", "CDC_CMD_PACKET_SIZE"),
     USBD_LL_OpenEP(CDC2_CMD_EP, "INTR", "CDC_CMD_PACKET_SIZE") >>

\* hcdc->TxState[i] = 0 for every instance.
InitTxState == [i \in Inst |-> 0]

\* InitArms arming both endpoints with instance 0's buffer.
InitArms_FirstBuffer(rxbuf) ==
  << USBD_LL_PrepareReceive(CDC_OUT_EP, rxbuf[0], BulkOutSize),
     USBD_LL_PrepareReceive(CDC2_OUT_EP, rxbuf[0], BulkOutSize) >>

\* The two USBD_LL_PrepareReceive calls that end a successful init.
InitArms(rxbuf) ==
  << USBD_LL_PrepareReceive(CDC_OUT_EP, rxbuf[0], BulkOutSize),
     USBD_LL_PrepareReceive(CDC2_OUT_EP, rxbuf[1], BulkOutSize) >>

\* InitCalls without the test of what USBD_malloc returned.
InitCalls_NoNullCheck(mem, rxbuf) ==
  InitOpens \o <<Itf_Init(0), Itf_Init(1)>> \o InitArms(rxbuf)

\* Every call of the handler: the block is set up only if (pClassData != NULL).
InitCalls(mem, rxbuf) ==
  IF mem = NULL THEN InitOpens
  ELSE InitOpens \o <<Itf_Init(0), Itf_Init(1)>> \o InitArms(rxbuf)

\* The endpoint addresses a sequence of calls opens.
OpenedBy(cs) ==
  {cs[k][2] : k \in {j \in 1 .. Len(cs) : cs[j][1] = "USBD_LL_OpenEP"}}

\* The instances whose Init callback a sequence of calls invokes.
InitedBy(cs) ==
  {cs[k][2] : k \in {j \in 1 .. Len(cs) : cs[j][1] = "Itf.Init"}}

\* InitBlock leaving the block as USBD_malloc returned it.
InitBlock_Untouched(g) == g

\* The block after the loop over the instances: the transfer states are
\* written, every other field keeps what the block held.
InitBlock(g) == [g EXCEPT !.TxState = InitTxState, !.RxState = [i \in Inst |-> 0]]

USBD_CDC_Init(mem, g) ==
  /\ ~fault
  /\ op' = <<"Init">>
  /\ calls' = InitCalls(mem, g.RxBuffer)
  /\ openEPs' = openEPs \cup OpenedBy(calls')
  /\ rxArmed' = rxArmed \cup ArmedBy(calls')
  /\ ctxPointers' = [i \in Inst |-> IF i \in InitedBy(calls') THEN AppCtx(i)
                                    ELSE ctxPointers[i]]
  /\ pClassData' = mem
  /\ txTrack' = EndLifetime("stale")
  /\ ctlTrack' = CtlNone
  /\ fault' = fault
  /\ UNCHANGED devVars
  /\ IF mem = NULL
       THEN /\ ret' = INIT_FAIL
            /\ SetBlock(Freed)
       ELSE /\ ret' = INIT_OK
            /\ SetBlock(InitBlock(g))

(***************************************************************************)
(* USBD_CDC_DeInit.                                                        *)
(***************************************************************************)
DeInitCloses ==
  << USBD_LL_CloseEP(CDC_IN_EP), USBD_LL_CloseEP(CDC_OUT_EP),
     USBD_LL_CloseEP(CDC_CMD_EP), USBD_LL_CloseEP(CDC2_IN_EP),
     USBD_LL_CloseEP(CDC2_OUT_EP), USBD_LL_CloseEP(CDC2_CMD_EP) >>

\* DeInitReleases without the test of pClassData.
DeInitReleases_Always ==
  <<Itf_DeInit(ctxPointers[0]), Itf_DeInit(ctxPointers[1]), USBD_free(pClassData)>>

\* if (pdev->pClassData != NULL): the DeInit callbacks, then USBD_free.
DeInitReleases ==
  IF pClassData # NULL
    THEN <<Itf_DeInit(ctxPointers[0]), Itf_DeInit(ctxPointers[1]), USBD_free(pClassData)>>
    ELSE <<>>

USBD_CDC_DeInit ==
  /\ ~fault
  /\ op' = <<"DeInit">>
  /\ openEPs' = openEPs \ AllEPs
  /\ rxArmed' = rxArmed \ AllEPs
  /\ calls' = DeInitCloses \o DeInitReleases
  /\ pClassData' = NULL
  /\ SetBlock(Freed)
  /\ txTrack' = EndLifetime("dropped")
  /\ ctlTrack' = CtlNone
  /\ ret' = 0
  /\ UNCHANGED <<devVars, ctxPointers, fault>>

(***************************************************************************)
(* USBD_CDC_DataIn: a transfer on a non-control IN endpoint completed.     *)
(***************************************************************************)
\* TxMarkIdle clearing the busy flag of every instance.
TxMarkIdle_All(instance) == [i \in Inst |-> 0]

\* hcdc->TxState[instance] = 0;
TxMarkIdle(instance) == [TxState EXCEPT ![instance] = 0]

\* DataInCompletes submitting the stored buffer again after the callback.
DataInCompletes_Chain(instance) ==
  << Itf_TxComplete(ctxPointers[instance]),
     USBD_LL_Transmit(TxEp(instance), TxBuffer[instance], TxLength[instance]) >>

\* The calls of the data-in handler, block present: the TxComplete callback.
DataInCompletes(instance) == <<Itf_TxComplete(ctxPointers[instance])>>

USBD_CDC_DataIn(epnum) ==
  LET instance == EpInstance(epnum) IN
  /\ ~fault
  /\ op' = <<"DataIn", epnum>>
  /\ txTrack' = [txTrack EXCEPT ![instance] = "none"]
  /\ IF pClassData # NULL
       THEN /\ TxState' = TxMarkIdle(instance)
            /\ calls' = DataInCompletes(instance)
            /\ ret' = USBD_OK
       ELSE /\ TxState' = TxState
            /\ calls' = <<>>
            /\ ret' = USBD_FAIL
  /\ UNCHANGED <<devVars, pClassData, ctxPointers, RxState, TxBuffer, TxLength,
                 RxBuffer, RxLength, ctlVars, llVars, fault>>
  /\ ctlTrack' = CtlTrackKeep

(***************************************************************************)
(* USBD_CDC_DataOut: a packet arrived on a non-control OUT endpoint; size  *)
(* is what USBD_LL_GetRxDataSize reports.  The endpoint that received is   *)
(* no longer armed.                                                        *)
(***************************************************************************)
\* DataOutDelivers re-arming the endpoint after the callback.
DataOutDelivers_Rearm(instance, size) ==
  << Itf_Receive(ctxPointers[instance], RxBuffer[instance], instance, size),
     USBD_LL_PrepareReceive(IF instance # 0 THEN CDC2_OUT_EP ELSE CDC_OUT_EP,
                            RxBuffer[instance], BulkOutSize) >>

\* Calls the data-out handler makes after reading the size, block present.
DataOutDelivers(instance, size) ==
  <<Itf_Receive(ctxPointers[instance], RxBuffer[instance], instance, size)>>

\* RxStore writing the size to both instances.
RxStore_Both(instance, size) == [i \in Inst |-> size]

\* hcdc->RxLength[instance] = USBD_LL_GetRxDataSize (pdev, epnum);
RxStore(instance, size) == [RxLength EXCEPT ![instance] = size]

USBD_CDC_DataOut(epnum, size) ==
  LET instance == EpInstance(epnum) IN
  /\ ~fault
  /\ \/ NullFault(<<"DataOut", epnum, size>>, <<USBD_LL_GetRxDataSize(epnum)>>)
     \/ /\ op' = <<"DataOut", epnum, size>>
        /\ IF pClassData # NULL
             THEN /\ RxLength' = RxStore(instance, size)
                  /\ calls' = <<USBD_LL_GetRxDataSize(epnum)>> \o
                              DataOutDelivers(instance, size)
                  /\ ret' = USBD_OK
             ELSE /\ RxLength' = RxLength
                  /\ calls' = <<USBD_LL_GetRxDataSize(epnum)>>
                  /\ ret' = USBD_FAIL
        /\ rxArmed' = (rxArmed \ {epnum}) \cup ArmedBy(calls')
        /\ UNCHANGED <<devVars, pClassData, ctxPointers, TxState, RxState, TxBuffer,
                       TxLength, RxBuffer, ctlVars, openEPs, fault, txTrack>>
        /\ ctlTrack' = CtlTrackKeep

(***************************************************************************)
(* USBD_CDC_RegisterInterface, USBD_CDC_SetTxBuffer, USBD_CDC_SetRxBuffer. *)
(***************************************************************************)
USBD_CDC_RegisterInterface(fops) ==
  /\ ~fault
  /\ op' = <<"RegisterInterface", fops>>
  /\ calls' = <<>>
  /\ IF fops # NULL
       THEN pUserData' = fops /\ ret' = USBD_OK
       ELSE pUserData' = pUserData /\ ret' = USBD_FAIL
  /\ UNCHANGED <<dev_speed, pClassData, ctxPointers, hcdcVars, llVars, fault, txTrack>>
  /\ ctlTrack' = CtlTrackKeep

USBD_CDC_SetTxBuffer(instance, pbuff, length) ==
  /\ ~fault
  /\ \/ NullFault(<<"SetTxBuffer", instance, pbuff, length>>, <<>>)
     \/ /\ op' = <<"SetTxBuffer", instance, pbuff, length>>
        /\ calls' = <<>>
        /\ ret' = USBD_OK
        /\ IF pClassData # NULL
             THEN /\ TxBuffer' = [TxBuffer EXCEPT ![instance] = pbuff]
                  /\ TxLength' = [TxLength EXCEPT ![instance] = length]
             ELSE UNCHANGED <<TxBuffer, TxLength>>
        /\ UNCHANGED <<devVars, pClassData, ctxPointers, TxState, RxState, RxBuffer,
                       RxLength, ctlVars, llVars, fault, txTrack>>
        /\ ctlTrack' = CtlTrackKeep

USBD_CDC_SetRxBuffer(instance, pbuff) ==
  /\ ~fault
  /\ \/ NullFault(<<"SetRxBuffer", instance, pbuff>>, <<>>)
     \/ /\ op' = <<"SetRxBuffer", instance, pbuff>>
        /\ calls' = <<>>
        /\ ret' = USBD_OK
        /\ IF pClassData # NULL
             THEN RxBuffer' = [RxBuffer EXCEPT ![instance] = pbuff]
             ELSE UNCHANGED RxBuffer
        /\ UNCHANGED <<devVars, pClassData, ctxPointers, TxState, RxState, TxBuffer,
                       TxLength, RxLength, ctlVars, llVars, fault, txTrack>>
        /\ ctlTrack' = CtlTrackKeep

(***************************************************************************)
(* USBD_CDC_TransmitPacket.                                                *)
(***************************************************************************)
\* TxIdle without the test of TxState: every transmit is accepted.
TxIdle_NoCheck(instance) == TRUE

\* if (hcdc->TxState[instance] == 0)
TxIdle(instance) == TxState[instance] = 0

\* The link-layer submission of an accepted transmit.
TxSubmit(instance) ==
  <<USBD_LL_Transmit(TxEp(instance), TxBuffer[instance], TxLength[instance])>>

USBD_CDC_TransmitPacket(instance) ==
  /\ ~fault
  /\ op' = <<"TransmitPacket", instance>>
  /\ IF pClassData # NULL
       THEN IF TxIdle(instance)
              THEN /\ TxState' = [TxState EXCEPT ![instance] = 1]
                   /\ calls' = TxSubmit(instance)
                   /\ ret' = USBD_OK
                   /\ txTrack' = [txTrack EXCEPT ![instance] = "inflight"]
              ELSE /\ calls' = <<>>
                   /\ ret' = USBD_BUSY
                   /\ UNCHANGED <<TxState, txTrack>>
       ELSE /\ calls' = <<>>
            /\ ret' = USBD_FAIL
            /\ UNCHANGED <<TxState, txTrack>>
  /\ UNCHANGED <<devVars, pClassData, ctxPointers, RxState, TxBuffer, TxLength,
                 RxBuffer, RxLength, ctlVars, llVars, fault>>
  /\ ctlTrack' = CtlTrackKeep

(***************************************************************************)
(* USBD_CDC_ReceivePacket.                                                 *)
(***************************************************************************)
\* The USBD_LL_PrepareReceive call of receivePacket.
RxArm(instance) ==
  <<USBD_LL_PrepareReceive(RxEp(instance), RxBuffer[instance], BulkOutSize)>>

USBD_CDC_ReceivePacket(instance) ==
  /\ ~fault
  /\ op' = <<"ReceivePacket", instance>>
  /\ IF pClassData # NULL
       THEN /\ calls' = RxArm(instance)
            /\ rxArmed' = rxArmed \cup ArmedBy(calls')
            /\ ret' = USBD_OK
       ELSE /\ calls' = <<>>
            /\ rxArmed' = rxArmed
            /\ ret' = USBD_FAIL
  /\ UNCHANGED <<devVars, pClassData, ctxPointers, hcdcVars, openEPs, fault, txTrack>>
  /\ ctlTrack' = CtlTrackKeep

(***************************************************************************)
(* USBD_CDC_Setup.  req is the setup packet: bmRequest, bRequest, wIndex,  *)
(* wLength.                                                                *)
(***************************************************************************)
\* req->bmRequest & USB_REQ_TYPE_MASK
ReqType(req) == BitAnd(req.bmRequest, USB_REQ_TYPE_MASK)

\* req->bmRequest & 0x80: the data phase goes device to host.
ReqDirIn(req) == BitAnd(req.bmRequest, REQ_DIR_IN) # 0

\* SetupStages without the test of req->wLength.
SetupStages_NoLengthTest(req) ==
  BitAnd(req.bmRequest, USB_REQ_TYPE_MASK) = USB_REQ_TYPE_CLASS
    /\ BitAnd(req.bmRequest, REQ_DIR_IN) = 0

\* The branch that stages a host-to-device data phase.
SetupStages(req) ==
  ReqType(req) = USB_REQ_TYPE_CLASS /\ req.wLength # 0 /\ ~ReqDirIn(req)

\* SetupClassCalls sending the staging buffer before the callback fills it.
SetupClassCalls_SendFirst(req, instance) ==
  IF req.wLength # 0
    THEN IF BitAnd(req.bmRequest, REQ_DIR_IN) # 0
           THEN << USBD_CtlSendData(DataPtr, req.wLength),
                   Itf_Control(ctxPointers[instance], req.bRequest, DataPtr, req.wLength) >>
           ELSE << USBD_CtlPrepareRx(DataPtr, req.wLength) >>
    ELSE << Itf_Control(ctxPointers[instance], req.bRequest, ReqPtr, 0) >>

\* The calls of the class branch.
SetupClassCalls(req, instance) ==
  IF req.wLength # 0
    THEN IF ReqDirIn(req)
           THEN << Itf_Control(ctxPointers[instance], req.bRequest, DataPtr, req.wLength),
                   USBD_CtlSendData(DataPtr, req.wLength) >>
           ELSE << USBD_CtlPrepareRx(DataPtr, req.wLength) >>
    ELSE << Itf_Control(ctxPointers[instance], req.bRequest, ReqPtr, 0) >>

\* SetupStandardCalls answering every standard request.
SetupStandardCalls_AnyRequest(req) == << USBD_CtlSendData(IfaltPtr, 1) >>

\* The calls of the standard branch.
SetupStandardCalls(req) ==
  IF req.bRequest = USB_REQ_GET_INTERFACE
    THEN << USBD_CtlSendData(IfaltPtr, 1) >>
    ELSE << >>

\* SetupCalls invoking the Control callback already when a host-to-device
\* request is staged.
SetupCalls_CallbackAtSetup(req, instance) ==
  IF ReqType(req) = USB_REQ_TYPE_CLASS
    THEN IF SetupStages(req)
           THEN << Itf_Control(ctxPointers[instance], req.bRequest, DataPtr, req.wLength),
                   USBD_CtlPrepareRx(DataPtr, req.wLength) >>
           ELSE SetupClassCalls(req, instance)
  ELSE IF ReqType(req) = USB_REQ_TYPE_STANDARD THEN SetupStandardCalls(req)
  ELSE << >>

SetupCalls(req, instance) ==
  IF ReqType(req) = USB_REQ_TYPE_CLASS THEN SetupClassCalls(req, instance)
  ELSE IF ReqType(req) = USB_REQ_TYPE_STANDARD THEN SetupStandardCalls(req)
  ELSE << >>

SetupOp(req) == <<"Setup", req.bmRequest, req.bRequest, req.wIndex, req.wLength>>

\* CtrlInstOf recording the instance only of a setup that stages its data.
CtrlInstOf_StagedOnly(req, instance) == IF SetupStages(req) THEN instance ELSE ctrlInst

\* hcdc->ctrlInst = instance; for every setup packet.
CtrlInstOf(req, instance) == instance

\* The staged setup and the last setup after this one.
CtlTrackSetup(req, instance) ==
  IF SetupStages(req)
    THEN [state |-> "staged", inst |-> instance, last |-> instance,
          opcode |-> req.bRequest, len |-> req.wLength]
  ELSE IF ctlTrack.state = "staged" THEN [ctlTrack EXCEPT !.last = instance]
  ELSE CtlNone

USBD_CDC_Setup(req) ==
  LET instance == SetupInstance(req.wIndex) IN
  /\ ~fault
  /\ \/ NullFault(SetupOp(req), <<>>)
     \/ /\ op' = SetupOp(req)
        /\ calls' = SetupCalls(req, instance)
        /\ ret' = USBD_OK
        /\ IF pClassData # NULL
             THEN /\ ctrlInst' = CtrlInstOf(req, instance)
                  /\ ctlTrack' = CtlTrackSetup(req, instance)
                  /\ IF SetupStages(req)
                       THEN /\ CmdOpCode' = req.bRequest
                            /\ CmdLength' = req.wLength
                       ELSE UNCHANGED <<CmdOpCode, CmdLength>>
             ELSE UNCHANGED ctlVars /\ ctlTrack' = CtlTrackKeep
        /\ UNCHANGED <<devVars, pClassData, ctxPointers, xferVars, llVars, fault,
                       txTrack>>

(***************************************************************************)
(* USBD_CDC_EP0_RxReady: the data phase of a control-OUT transfer is in.   *)
(* g is what the reads of hcdc yield when pClassData is NULL.              *)
(***************************************************************************)
\* (pdev->pUserData != NULL) && (hcdc->CmdOpCode != 0xFF)
CmdPending(opcode) == pUserData # NULL /\ opcode # CMD_NONE

\* The staged setup after the control-data-ready event that ends it.
CtlTrackReady ==
  IF ctlTrack.state = "staged" THEN [ctlTrack EXCEPT !.state = "done", !.opcode = 0, !.len = 0]
  ELSE CtlNone

USBD_CDC_EP0_RxReady(g) ==
  LET inst == IF pClassData # NULL THEN ctrlInst ELSE g.ctrlInst
      opcode == IF pClassData # NULL THEN CmdOpCode ELSE g.CmdOpCode
      length == IF pClassData # NULL THEN CmdLength ELSE g.CmdLength
  IN
  /\ ~fault
  /\ \/ NullFault(<<"EP0_RxReady">>, <<>>)
     \/ /\ op' = <<"EP0_RxReady">>
        /\ ret' = USBD_OK
        /\ IF CmdPending(opcode)
             THEN /\ calls' = <<Itf_Control(ctxPointers[inst], opcode, DataPtr, length)>>
                  /\ CmdOpCode' = IF pClassData # NULL THEN CMD_NONE ELSE CmdOpCode
             ELSE /\ calls' = <<>>
                  /\ CmdOpCode' = CmdOpCode
        /\ ctlTrack' = IF pClassData # NULL THEN CtlTrackReady ELSE CtlTrackKeep
        /\ UNCHANGED <<devVars, pClassData, ctxPointers, xferVars, CmdLength, ctrlInst,
                       llVars, fault, txTrack>>

(***************************************************************************)
(* Inputs.  A domain D names the values the environment draws from: the    *)
(* bus speed, the setup packets, the endpoint numbers of data events, the  *)
(* sizes the link layer reports, the instances, buffers and lengths the    *)
(* application passes, and the contents an allocated block may start with. *)
(***************************************************************************)
SetupReq(bm, b, idx, len) ==
  [bmRequest |-> bm, bRequest |-> b, wIndex |-> idx, wLength |-> len]

\* Host-to-device class, device-to-host class, standard, vendor, reserved.
BmRequests == {33, 161, 129, 64, 96}

\* GET_INTERFACE, SET_INTERFACE, GET_LINE_CODING, and the value the driver
\* uses for "no command pending".
BRequests == {USB_REQ_GET_INTERFACE, USB_REQ_SET_INTERFACE, 33, CMD_NONE}

WIndexes == {USB_CDC_DIF_NUM0, USB_CDC_CIF_NUM1, USB_CDC_DIF_NUM1}

\* Every endpoint of the device by address, the command endpoints by number,
\* and numbers no endpoint of the device has, with and without CDC2_EP_MASK.
EpNums == AllEPs \cup {2, 6, 0, 8, 12}

\* The contents USBD_malloc's block may hold when it is returned.
Blocks(D) ==
  [TxState : D.txStates, RxState : {[i \in Inst |-> 0]},
   TxBuffer : [Inst -> D.txBufs], TxLength : [Inst -> D.txLens],
   RxBuffer : [Inst -> D.rxBufs], RxLength : [Inst -> D.rxSizes],
   CmdOpCode : D.opcodes, CmdLength : D.ctlLens, ctrlInst : D.ctlInsts]

InitOver(D) ==
  /\ dev_speed \in D.speeds
  /\ pClassData = NULL
  /\ pUserData = "fops"
  /\ ctxPointers = [i \in Inst |-> NULL]
  /\ TxState = Freed.TxState
  /\ RxState = Freed.RxState
  /\ TxBuffer = Freed.TxBuffer
  /\ TxLength = Freed.TxLength
  /\ RxBuffer = Freed.RxBuffer
  /\ RxLength = Freed.RxLength
  /\ CmdOpCode = Freed.CmdOpCode
  /\ CmdLength = Freed.CmdLength
  /\ ctrlInst = Freed.ctrlInst
  /\ openEPs = {}
  /\ rxArmed = {}
  /\ fault = FALSE
  /\ op = <<"Start">>
  /\ ret = USBD_OK
  /\ calls = <<>>
  /\ txTrack = [i \in Inst |-> "none"]
  /\ ctlTrack = CtlNone

NextOver(D) ==
  \/ USBD_CDC_Init(NULL, Freed)
  \/ \E g \in Blocks(D) : USBD_CDC_Init(HCDC, g)
  \/ USBD_CDC_DeInit
  \/ \E req \in D.reqs : USBD_CDC_Setup(req)
  \/ \E g \in Blocks(D) : USBD_CDC_EP0_RxReady(g)
  \/ \E epnum \in D.inEps : USBD_CDC_DataIn(epnum)
  \/ \E epnum \in D.outEps, size \in D.rxSizes : USBD_CDC_DataOut(epnum, size)
  \/ \E fops \in {NULL, "fops"} : USBD_CDC_RegisterInterface(fops)
  \/ \E i \in D.txInsts, b \in D.txBufs, n \in D.txLens : USBD_CDC_SetTxBuffer(i, b, n)
  \/ \E i \in D.rxInsts, b \in D.rxBufs : USBD_CDC_SetRxBuffer(i, b)
  \/ \E i \in D.txInsts : USBD_CDC_TransmitPacket(i)
  \/ \E i \in D.rxInsts : USBD_CDC_ReceivePacket(i)

\* Class requests in both directions with two request codes and the "no
\* command" value, standard requests with GET_INTERFACE, SET_INTERFACE and
\* another code, vendor and reserved requests; each at every index and length.
AllReqs ==
  {SetupReq(bm, b, idx, len) : bm \in {33, 161}, b \in BRequests \ {USB_REQ_GET_INTERFACE},
                               idx \in WIndexes, len \in 0 .. MaxCtlLen}
  \cup {SetupReq(129, b, idx, len) : b \in BRequests \ {CMD_NONE},
                                     idx \in WIndexes, len \in 0 .. MaxCtlLen}
  \cup {SetupReq(bm, 33, idx, len) : bm \in BmRequests \ {33, 161, 129},
                                     idx \in WIndexes, len \in 0 .. MaxCtlLen}

\* Every input at its full range.
DomFull ==
  [speeds |-> {USBD_SPEED_HIGH, USBD_SPEED_FULL},
   txInsts |-> Inst, rxInsts |-> Inst,
   reqs |-> AllReqs,
   inEps |-> EpNums, outEps |-> EpNums,
   rxSizes |-> 0 .. MaxRxLen,
   txBufs |-> {"txA", "txB"}, txLens |-> 0 .. MaxTxLen,
   rxBufs |-> {"rxA", "rxB"},
   opcodes |-> BRequests \ {USB_REQ_GET_INTERFACE}, ctlLens |-> 0 .. MaxCtlLen,
   ctlInsts |-> Inst,
   txStates |-> [Inst -> {0, 1}]]

\* Every input at one value: full speed, instance 0's data path, one staged
\* class request addressed to instance 1.
DomFew ==
  [speeds |-> {USBD_SPEED_FULL},
   txInsts |-> {0}, rxInsts |-> {0},
   reqs |-> {SetupReq(33, 33, USB_CDC_CIF_NUM1, 1)},
   inEps |-> {CDC_IN_EP}, outEps |-> {CDC_OUT_EP},
   rxSizes |-> {1},
   txBufs |-> {"txA"}, txLens |-> {1},
   rxBufs |-> {"rxA"},
   opcodes |-> {CMD_NONE}, ctlLens |-> {1}, ctlInsts |-> {1},
   txStates |-> {[i \in Inst |-> 0]}]

\* The transmit path at its full range, the rest at one value.
DomTx ==
  [DomFew EXCEPT !.txInsts = Inst,
                 !.inEps = {CDC_IN_EP, CDC2_IN_EP, CDC_CMD_EP, CDC2_CMD_EP},
                 !.txBufs = DomFull.txBufs, !.txLens = DomFull.txLens]

\* The receive path at its full range.
DomRx ==
  [DomFew EXCEPT !.speeds = DomFull.speeds, !.rxInsts = Inst,
                 !.outEps = {CDC_OUT_EP, CDC2_OUT_EP},
                 !.rxSizes = DomFull.rxSizes, !.rxBufs = DomFull.rxBufs]

\* The control path at its full range.
DomCtl ==
  [DomFew EXCEPT !.reqs = DomFull.reqs, !.opcodes = DomFull.opcodes,
                 !.ctlLens = DomFull.ctlLens, !.ctlInsts = Inst]

\* Data events on every endpoint number.
DomEp ==
  [DomFew EXCEPT !.inEps = EpNums, !.outEps = EpNums]

\* Init and deinit around both instances' data paths, at both speeds.
DomLife ==
  [DomFew EXCEPT !.speeds = DomFull.speeds, !.txInsts = Inst, !.rxInsts = Inst,
                 !.inEps = {CDC_IN_EP, CDC2_IN_EP},
                 !.outEps = {CDC_OUT_EP, CDC2_OUT_EP},
                 !.rxBufs = DomFull.rxBufs,
                 !.txStates = {[i \in Inst |-> 0], [i \in Inst |-> 1]}]

\* Setup packets of every kind at every index: the four interface numbers,
\* the next number and the largest a 16-bit index holds.
IndexReqs ==
  {SetupReq(bm, 33, idx, len) : bm \in BmRequests,
                                idx \in {USB_CDC_CIF_NUM0, USB_CDC_DIF_NUM0, USB_CDC_CIF_NUM1,
                                         USB_CDC_DIF_NUM1, USB_CDC_DIF_NUM1 + 1, 65535},
                                len \in 0 .. MaxCtlLen}

DomIdx ==
  [DomFew EXCEPT !.reqs = IndexReqs, !.opcodes = {CMD_NONE, 33}, !.ctlInsts = Inst]

\* Both instances' data paths side by side, with every received size.
DomIso ==
  [DomFew EXCEPT !.txInsts = Inst, !.rxInsts = Inst,
                 !.inEps = {CDC_IN_EP, CDC2_IN_EP},
                 !.outEps = {CDC_OUT_EP, CDC2_OUT_EP},
                 !.rxSizes = DomFull.rxSizes]

Init == InitOver(DomFull)

Next == NextOver(DomFull)

Spec == Init /\ [][Next]_vars

SpecTx == InitOver(DomTx) /\ [][NextOver(DomTx)]_vars

SpecRx == InitOver(DomRx) /\ [][NextOver(DomRx)]_vars

SpecCtl == InitOver(DomCtl) /\ [][NextOver(DomCtl)]_vars

SpecEp == InitOver(DomEp) /\ [][NextOver(DomEp)]_vars

SpecLife == InitOver(DomLife) /\ [][NextOver(DomLife)]_vars

SpecIdx == InitOver(DomIdx) /\ [][NextOver(DomIdx)]_vars

SpecIso == InitOver(DomIso) /\ [][NextOver(DomIso)]_vars

(***************************************************************************)
(* Properties.  They read the handlers through op, ret and calls, and name *)
(* instances, endpoints and request kinds by their own definitions below,  *)
(* not by the operators of the handlers.                                   *)
(***************************************************************************)
\* The last entry point called.
OpIs(o, name) == o[1] = name

\* The instance an endpoint number belongs to: that of the CDC2_EP_MASK bit.
MaskBit(epnum) == (epnum \div CDC2_EP_MASK) % 2

\* The instance a setup index addresses.
IndexInst(wIndex) == IF wIndex \in {USB_CDC_CIF_NUM1, USB_CDC_DIF_NUM1} THEN 1 ELSE 0

BulkInOf(i) == IF i = 0 THEN CDC_IN_EP ELSE CDC2_IN_EP

BulkOutOf(i) == IF i = 0 THEN CDC_OUT_EP ELSE CDC2_OUT_EP

\* A setup op <<"Setup", bmRequest, bRequest, wIndex, wLength>> by kind.
IsClassSetup(o) == OpIs(o, "Setup") /\ (o[2] \div 32) % 4 = 1

IsHostToDevice(o) == (o[2] \div 128) % 2 = 0

IsStagedSetup(o) == IsClassSetup(o) /\ IsHostToDevice(o) /\ o[5] > 0

\* The calls of a sequence made to one function.
CallsTo(cs, fn) == {k \in 1 .. Len(cs) : cs[k][1] = fn}

\* C1 as stated: once transmit(i) has been accepted, every further transmit(i)
\* issued before the next transmit-complete event of instance i returns Busy
\* and submits nothing to the link layer, whatever events come in between.
C1_BusyUntilComplete_AnyEvents ==
  [][\A i \in Inst :
       (op' = <<"TransmitPacket", i>> /\ txTrack[i] # "none")
         => (ret' = USBD_BUSY /\ calls' = <<>>)]_vars

\* C1 amended: once transmit(i) has been accepted, every further transmit(i)
\* issued before the next transmit-complete event of instance i, and with no
\* deinit or init in between, returns Busy and submits nothing to the link
\* layer.
C1_BusyUntilComplete ==
  [][\A i \in Inst :
       (op' = <<"TransmitPacket", i>> /\ txTrack[i] = "inflight")
         => (ret' = USBD_BUSY /\ calls' = <<>> /\ TxState'[i] = 1)]_vars

\* C1 witness: a transmit on instance 1 was just refused while its earlier
\* transmit is in flight.
C1_Witness ==
  /\ op = <<"TransmitPacket", 1>>
  /\ ret = USBD_BUSY
  /\ txTrack[1] = "inflight"
  /\ calls = <<>>

\* C2 as stated: for every request code and every length L > 0, a class
\* host-to-device setup of length L addressed to instance i, followed by the
\* control-data-ready event, invokes the control callback exactly once, with
\* instance i's context, the request code, the staging buffer and L; and a
\* second control-data-ready event right after the first invokes nothing.
C2_StagedDeliveredOnce ==
  [][/\ (IsStagedSetup(op) /\ pClassData # NULL /\ ~fault /\ op' = <<"EP0_RxReady">>)
          => calls' = <<Itf_Control(ctxPointers[IndexInst(op[4])], op[3],
                                    "hcdc->data", op[5])>>
     /\ (op = <<"EP0_RxReady">> /\ pClassData # NULL /\ op' = <<"EP0_RxReady">>)
          => calls' = <<>>]_vars

\* C3 as stated: while the block exists, CmdOpCode is the "none" value unless
\* a class host-to-device setup with wLength > 0 was received and its
\* control-data-ready event has not occurred yet; so a control-data-ready
\* event right after a successful init invokes no control callback.
C3_PendingNoneUnlessStaged ==
  [][/\ (pClassData' # NULL /\ CmdOpCode' # CMD_NONE)
          => \/ IsStagedSetup(op')
             \/ /\ pClassData # NULL /\ CmdOpCode # CMD_NONE
                /\ ~OpIs(op', "Init") /\ ~OpIs(op', "EP0_RxReady")
     /\ (op = <<"Init">> /\ ret = INIT_OK /\ op' = <<"EP0_RxReady">>)
          => calls' = <<>>]_vars

\* C4: between an init and the next deinit or init, TxState[i] goes from idle
\* to busy only in an accepted transmit(i) and from busy to idle only in a
\* data-in event of an endpoint of instance i; no other step changes it.
C4_TxStateTransitions ==
  [][(pClassData # NULL /\ pClassData' # NULL /\ ~OpIs(op', "Init"))
       => \A i \in Inst :
            /\ (TxState[i] = 0 /\ TxState'[i] # 0)
                 => (op' = <<"TransmitPacket", i>> /\ ret' = USBD_OK /\ TxState'[i] = 1)
            /\ (TxState[i] # 0 /\ TxState'[i] = 0)
                 => (OpIs(op', "DataIn") /\ MaskBit(op'[2]) = i /\ ret' = USBD_OK)
            /\ (~OpIs(op', "DataIn") /\ ~OpIs(op', "TransmitPacket"))
                 => TxState'[i] = TxState[i]]_vars

\* C4 witness: a data-in event of instance 1 just made instance 1 idle while
\* instance 0's accepted transmit is still in flight and still busy.
C4_Witness ==
  /\ op = <<"DataIn", CDC2_IN_EP>>
  /\ ret = USBD_OK
  /\ TxState[0] = 1 /\ txTrack[0] = "inflight"
  /\ TxState[1] = 0

\* C5: a deinit followed by a successful init leaves TxState idle for both
\* instances and has armed both bulk-OUT endpoints, each with the RxBuffer of
\* its own instance, whatever the state before the deinit was.
C5_ReinitResets ==
  [][(op = <<"DeInit">> /\ op' = <<"Init">> /\ ret' = INIT_OK)
       => /\ Cardinality(CallsTo(calls', "USBD_LL_PrepareReceive")) = NUM_CDC_INSTANCES
          /\ \A i \in Inst :
               /\ TxState'[i] = 0
               /\ BulkOutOf(i) \in rxArmed'
               /\ \E k \in CallsTo(calls', "USBD_LL_PrepareReceive") :
                    calls'[k] = USBD_LL_PrepareReceive(BulkOutOf(i), RxBuffer'[i],
                                                       BulkOutSize)]_vars

\* C5 witness: a successful init after a deinit that came while both
\* instances had a transmit in flight; the two instances' RxBuffers differ.
C5_Witness ==
  /\ op = <<"Init">> /\ ret = INIT_OK
  /\ \A i \in Inst : txTrack[i] = "dropped" /\ TxState[i] = 0
  /\ RxBuffer[0] # RxBuffer[1]
  /\ rxArmed = {CDC_OUT_EP, CDC2_OUT_EP}

\* C6: a data-out handler that runs to its end arms nothing, so the endpoint
\* that received stays un-armed after it; and a bulk-OUT endpoint of instance i is armed only by
\* receivePacket(i) or by an init, by no other handler.
C6_NoAutoRearm ==
  [][/\ (OpIs(op', "DataOut") /\ ~fault')
          => (CallsTo(calls', "USBD_LL_PrepareReceive") = {} /\ op'[2] \notin rxArmed')
     /\ \A i \in Inst :
          (\/ \E k \in CallsTo(calls', "USBD_LL_PrepareReceive") :
                calls'[k][2] = BulkOutOf(i)
           \/ (BulkOutOf(i) \notin rxArmed /\ BulkOutOf(i) \in rxArmed'))
            => (op' = <<"ReceivePacket", i>> \/ op' = <<"Init">>)]_vars

\* C6 witness: instance 0's bulk-OUT endpoint received a packet and is still
\* un-armed after a later data-in event; instance 1's is still armed.
C6_Witness ==
  /\ op = <<"DataIn", CDC_IN_EP>> /\ ret = USBD_OK
  /\ pClassData # NULL
  /\ CDC_OUT_EP \notin rxArmed
  /\ CDC2_OUT_EP \in rxArmed

\* C7: receivePacket(i) arms instance i's bulk-OUT endpoint with RxBuffer[i];
\* a receive event on that endpoint then stores the reported size in
\* RxLength[i] and invokes Receive once, with instance i's context, RxBuffer[i]
\* and RxLength[i], leaving the other instance's RxLength alone.
C7_ReceiveRoundTrip ==
  [][\A i \in Inst :
       /\ (op' = <<"ReceivePacket", i>> /\ pClassData # NULL)
            => /\ calls' = <<USBD_LL_PrepareReceive(BulkOutOf(i), RxBuffer[i],
                                                    BulkOutSize)>>
               /\ BulkOutOf(i) \in rxArmed'
               /\ ret' = USBD_OK
       /\ (OpIs(op', "DataOut") /\ op'[2] = BulkOutOf(i) /\ BulkOutOf(i) \in rxArmed
             /\ pClassData # NULL)
            => /\ RxLength'[i] = op'[3]
               /\ RxLength'[1 - i] = RxLength[1 - i]
               /\ calls' = << USBD_LL_GetRxDataSize(BulkOutOf(i)),
                              Itf_Receive(AppCtx(i), RxBuffer[i], i, op'[3]) >>
               /\ ret' = USBD_OK]_vars

\* C7 witness: a receive event of instance 1 delivered instance 1's buffer and
\* length while instance 0 holds another buffer and another length.
C7_Witness ==
  /\ op = <<"DataOut", CDC2_OUT_EP, 1>> /\ ret = USBD_OK
  /\ RxLength[1] = 1 /\ RxLength[0] = 0
  /\ RxBuffer[0] # RxBuffer[1]
  /\ Len(calls) = 2 /\ calls[2] = Itf_Receive("ctx1", RxBuffer[1], 1, 1)

\* C8: a class device-to-host setup of length L > 0 addressed to instance i
\* invokes the control callback first, with instance i's context, the request
\* code, the staging buffer and L, then sends exactly L bytes of the staging
\* buffer on the control endpoint; it arms no control receive and leaves
\* CmdOpCode and CmdLength as they were.
C8_ClassInCallbackThenSend ==
  [][(IsClassSetup(op') /\ ~IsHostToDevice(op') /\ op'[5] > 0 /\ pClassData # NULL)
       => /\ calls' = << Itf_Control(AppCtx(IndexInst(op'[4])), op'[3], "hcdc->data",
                                     op'[5]),
                         USBD_CtlSendData("hcdc->data", op'[5]) >>
          /\ CmdOpCode' = CmdOpCode
          /\ CmdLength' = CmdLength
          /\ ret' = USBD_OK]_vars

\* C8 witness: GET_LINE_CODING (0x21) read from instance 0's data interface
\* while another request code is pending.
C8_Witness ==
  /\ op = <<"Setup", 161, 33, USB_CDC_DIF_NUM0, 1>>
  /\ calls = << Itf_Control("ctx0", 33, "hcdc->data", 1),
                USBD_CtlSendData("hcdc->data", 1) >>
  /\ CmdOpCode = USB_REQ_SET_INTERFACE

\* C9: every data-in and every data-out event is attributed to instance 1 if
\* the CDC2_EP_MASK bit is set in its endpoint number and to instance 0 if
\* not; the three endpoints of instance 1 go to instance 1 and the three of
\* instance 0 to instance 0.
C9_EndpointClassification ==
  (pClassData # NULL /\ ~fault /\ ret = USBD_OK) =>
    /\ OpIs(op, "DataIn")
         => /\ calls = <<Itf_TxComplete(AppCtx(MaskBit(op[2])))>>
            /\ op[2] \in {CDC2_IN_EP, CDC2_OUT_EP, CDC2_CMD_EP}
                 => calls[1][2] = "ctx1"
            /\ op[2] \in {CDC_IN_EP, CDC_OUT_EP, CDC_CMD_EP}
                 => calls[1][2] = "ctx0"
    /\ OpIs(op, "DataOut")
         => /\ Len(calls) = 2
            /\ calls[2] = Itf_Receive(AppCtx(MaskBit(op[2])), RxBuffer[MaskBit(op[2])],
                                      MaskBit(op[2]), op[3])
            /\ op[2] \in {CDC2_IN_EP, CDC2_OUT_EP, CDC2_CMD_EP}
                 => calls[2][2] = "ctx1"
            /\ op[2] \in {CDC_IN_EP, CDC_OUT_EP, CDC_CMD_EP}
                 => calls[2][2] = "ctx0"

\* C9 witness: a data-in event of instance 1's command endpoint went to
\* instance 1.
C9_Witness ==
  /\ op = <<"DataIn", CDC2_CMD_EP>> /\ ret = USBD_OK
  /\ calls = <<Itf_TxComplete("ctx1")>>

\* C10: an init whose allocation fails returns 1 (a failure status), leaves
\* pClassData NULL, invokes no Init callback, arms no endpoint and closes
\* none: its only calls are the six USBD_LL_OpenEP, and the six endpoints are
\* open afterwards.
C10_AllocFailure ==
  [][(op' = <<"Init">> /\ pClassData' = NULL)
       => /\ ret' = INIT_FAIL /\ ret' # USBD_OK
          /\ Len(calls') = 6
          /\ CallsTo(calls', "USBD_LL_OpenEP") = 1 .. 6
          /\ {calls'[k][2] : k \in 1 .. 6} = AllEPs
          /\ AllEPs \subseteq openEPs'
          /\ rxArmed' = rxArmed
          /\ ctxPointers' = ctxPointers]_vars

\* C10 witness: the first init failed: no block, six endpoints open, nothing
\* armed, no context stored.
C10_Witness ==
  /\ op = <<"Init">> /\ ret = INIT_FAIL
  /\ pClassData = NULL
  /\ openEPs = AllEPs
  /\ rxArmed = {}
  /\ ctxPointers = [i \in Inst |-> NULL]

\* The packet sizes of the bulk endpoints at the speed of the bus.
SpeedInSize ==
  IF dev_speed = "USBD_SPEED_HIGH" THEN "CDC_DATA_HS_IN_PACKET_SIZE"
  ELSE "CDC_DATA_FS_IN_PACKET_SIZE"

SpeedOutSize ==
  IF dev_speed = "USBD_SPEED_HIGH" THEN "CDC_DATA_HS_OUT_PACKET_SIZE"
  ELSE "CDC_DATA_FS_OUT_PACKET_SIZE"

CmdInOf(i) == IF i = 0 THEN CDC_CMD_EP ELSE CDC2_CMD_EP

\* C11: a successful init opens exactly six endpoints, a bulk-IN and a
\* bulk-OUT at the packet sizes of the bus speed and an interrupt command-IN
\* for each instance; leaves TxState idle for both instances; invokes the
\* Init callback exactly once for instance 0 and once for instance 1; and
\* arms each bulk-OUT endpoint once, with its own instance's RxBuffer at the
\* bulk-OUT packet size of the bus speed.
C11_InitSucceeds ==
  (op = <<"Init">> /\ ret = INIT_OK) =>
    /\ pClassData # NULL
    /\ Len(calls) = 10
    /\ Cardinality(CallsTo(calls, "USBD_LL_OpenEP")) = 6
    /\ Cardinality(CallsTo(calls, "Itf.Init")) = 2
    /\ Cardinality(CallsTo(calls, "USBD_LL_PrepareReceive")) = 2
    /\ \A i \in Inst :
         /\ \E k \in 1 .. Len(calls) :
              calls[k] = <<"USBD_LL_OpenEP", BulkInOf(i), "BULK", SpeedInSize>>
         /\ \E k \in 1 .. Len(calls) :
              calls[k] = <<"USBD_LL_OpenEP", BulkOutOf(i), "BULK", SpeedOutSize>>
         /\ \E k \in 1 .. Len(calls) :
              calls[k] = <<"USBD_LL_OpenEP", CmdInOf(i), "INTR", "CDC_CMD_PACKET_SIZE">>
         /\ \E k \in 1 .. Len(calls) : calls[k] = <<"Itf.Init", i>>
         /\ \E k \in 1 .. Len(calls) :
              calls[k] = <<"USBD_LL_PrepareReceive", BulkOutOf(i), RxBuffer[i],
                           SpeedOutSize>>
         /\ TxState[i] = 0
         /\ ctxPointers[i] = AppCtx(i)
         /\ {BulkInOf(i), BulkOutOf(i), CmdInOf(i)} \subseteq openEPs
         /\ BulkOutOf(i) \in rxArmed

\* C11 witness: a successful init at high speed, the two instances holding
\* different receive buffers.
C11_Witness ==
  /\ op = <<"Init">> /\ ret = INIT_OK
  /\ dev_speed = "USBD_SPEED_HIGH"
  /\ RxBuffer[0] = "rxA" /\ RxBuffer[1] = "rxB"
  /\ TxState = [i \in Inst |-> 0]
  /\ rxArmed = {CDC_OUT_EP, CDC2_OUT_EP}

\* C12: every deinit closes the six endpoints and returns 0.  If the block
\* exists it then invokes the DeInit callback once with instance 0's context
\* and once with instance 1's, and releases the block after them; if not, it
\* makes no further call.  So a deinit that follows a failed init or another
\* deinit invokes no callback and releases nothing.
C12_DeInit ==
  [][(op' = <<"DeInit">>) =>
       /\ ret' = 0
       /\ pClassData' = NULL
       /\ Len(calls') >= 6
       /\ {calls'[k] : k \in 1 .. 6} = {<<"USBD_LL_CloseEP", e>> : e \in AllEPs}
       /\ openEPs' \cap AllEPs = {}
       /\ IF pClassData # NULL
            THEN /\ Len(calls') = 9
                 /\ {calls'[7], calls'[8]} = {<<"Itf.DeInit", ctxPointers[i]>> : i \in Inst}
                 /\ ctxPointers[0] # ctxPointers[1]
                 /\ calls'[9] = <<"USBD_free", pClassData>>
            ELSE Len(calls') = 6
       /\ ((op = <<"DeInit">> \/ (op = <<"Init">> /\ ret # INIT_OK)) => Len(calls') = 6)]_vars

\* C12 witness: a deinit that found no block, after an earlier init had
\* succeeded: it closed the endpoints and did nothing else.
C12_Witness ==
  /\ op = <<"DeInit">> /\ ret = 0
  /\ Len(calls) = 6
  /\ ctxPointers[0] = "ctx0" /\ ctxPointers[1] = "ctx1"
  /\ openEPs = {}
  /\ pClassData = NULL

\* C13: a transmit request for instance i with a buffer and a length is
\* USBD_CDC_SetTxBuffer(i, buffer, length) followed by
\* USBD_CDC_TransmitPacket(i).  Made while TxState[i] is busy, neither call
\* changes TxState, TxBuffer or TxLength or any other state of the driver, no
\* call is made to the link layer or the application, and the second returns
\* USBD_BUSY.
C13_BusyTransmitNoSideEffects ==
  [][\A i \in Inst :
       (pClassData # NULL /\ TxState[i] = 1) =>
         /\ (OpIs(op', "SetTxBuffer") /\ op'[2] = i)
              => /\ UNCHANGED <<devVars, pClassData, ctxPointers, hcdcVars, llVars>>
                 /\ calls' = <<>>
         /\ (op' = <<"TransmitPacket", i>>)
              => /\ UNCHANGED <<devVars, pClassData, ctxPointers, hcdcVars, llVars>>
                 /\ calls' = <<>>
                 /\ ret' = USBD_BUSY]_vars

\* C14: every setup packet is routed by its index.  The instance is 1 if the
\* index is USB_CDC_CIF_NUM1 or USB_CDC_DIF_NUM1 and 0 for every other index;
\* the handler records it in ctrlInst, every Control callback it makes gets
\* that instance's context, and so does the Control callback of the
\* control-data-ready event that follows a staged setup.
C14_SetupRoutedByIndex ==
  [][/\ (OpIs(op', "Setup") /\ pClassData # NULL)
          => /\ ctrlInst' = IndexInst(op'[4])
             /\ \A k \in CallsTo(calls', "Itf.Control") :
                  calls'[k][2] = AppCtx(IndexInst(op'[4]))
             /\ (IsClassSetup(op') /\ (~IsHostToDevice(op') \/ op'[5] = 0))
                  => CallsTo(calls', "Itf.Control") # {}
     /\ (IsStagedSetup(op) /\ pClassData # NULL /\ ~fault /\ op' = <<"EP0_RxReady">>)
          => /\ Len(calls') = 1
             /\ calls'[1][1] = "Itf.Control"
             /\ calls'[1][2] = AppCtx(IndexInst(op[4]))]_vars

\* C14 witness: a class request at an index that is no interface of the
\* device went to instance 0 while instance 1 was recorded before.
C14_Witness ==
  /\ op = <<"Setup", 161, 33, 65535, 1>>
  /\ pClassData # NULL
  /\ ctrlInst = 0
  /\ Len(calls) = 2 /\ calls[1] = <<"Itf.Control", "ctx0", 33, "hcdc->data", 1>>

\* C15: a class host-to-device setup of length L > 0 records its request
\* code in CmdOpCode and L in CmdLength and arms the control endpoint to
\* receive L bytes into the staging buffer, and that is the only call it
\* makes: no application callback runs in the setup step.  A Control callback
\* is made only by a setup that stages nothing or by the control-data-ready
\* event.
C15_StagedSetupDefers ==
  [][/\ (IsStagedSetup(op') /\ pClassData # NULL)
          => /\ CmdOpCode' = op'[3]
             /\ CmdLength' = op'[5]
             /\ calls' = << <<"USBD_CtlPrepareRx", "hcdc->data", op'[5]>> >>
             /\ ret' = USBD_OK
     /\ (CallsTo(calls', "Itf.Control") # {})
          => \/ (OpIs(op', "Setup") /\ ~IsStagedSetup(op'))
             \/ op' = <<"EP0_RxReady">>]_vars

\* C15 witness: a host-to-device class request of one byte staged for
\* instance 1.
C15_Witness ==
  /\ op = <<"Setup", 33, USB_REQ_SET_INTERFACE, USB_CDC_CIF_NUM1, 1>>
  /\ pClassData # NULL
  /\ CmdOpCode = USB_REQ_SET_INTERFACE /\ CmdLength = 1
  /\ calls = << <<"USBD_CtlPrepareRx", "hcdc->data", 1>> >>

\* C16: a class setup of length 0, in either direction, invokes the Control
\* callback at once, exactly once, with the addressed instance's context, the
\* request code and length 0, and makes no other call: nothing is sent on the
\* control endpoint and no control receive is armed.  CmdOpCode and CmdLength
\* stay as they were.
C16_ZeroLengthClassSetup ==
  [][(IsClassSetup(op') /\ op'[5] = 0 /\ pClassData # NULL)
       => /\ calls' = << <<"Itf.Control", AppCtx(IndexInst(op'[4])), op'[3], "req", 0>> >>
          /\ CmdOpCode' = CmdOpCode
          /\ CmdLength' = CmdLength
          /\ ret' = USBD_OK]_vars

\* C16 witness: a zero-length device-to-host class request for instance 1
\* while a staged request is pending.
C16_Witness ==
  /\ op = <<"Setup", 161, USB_REQ_SET_INTERFACE, USB_CDC_DIF_NUM1, 0>>
  /\ calls = << <<"Itf.Control", "ctx1", USB_REQ_SET_INTERFACE, "req", 0>> >>
  /\ CmdOpCode = 33 /\ CmdLength = 1

\* The type of a setup op: standard 0, class 1, vendor 2, reserved 3.
SetupTypeOf(o) == (o[2] \div 32) % 4

\* C18: while the block exists, a setup packet that is neither class nor
\* standard, and a standard request other than GET_INTERFACE, is ignored: the
\* handler returns USBD_OK, makes no call to the application, the link layer
\* or the core, and leaves CmdOpCode, CmdLength and the transfer state of both
\* instances as they were.  Every setup packet is answered USBD_OK.
C18_IgnoredSetups ==
  [][(OpIs(op', "Setup") /\ pClassData # NULL)
       => /\ ret' = USBD_OK
          /\ (\/ SetupTypeOf(op') \in {2, 3}
              \/ (SetupTypeOf(op') = 0 /\ op'[3] # USB_REQ_GET_INTERFACE))
               => /\ calls' = <<>>
                  /\ CmdOpCode' = CmdOpCode
                  /\ CmdLength' = CmdLength
                  /\ UNCHANGED <<xferVars, llVars, pClassData, ctxPointers>>]_vars

\* C18 witness: a standard SET_INTERFACE with a data length, while a staged
\* request is pending.
C18_Witness ==
  /\ op = <<"Setup", 129, USB_REQ_SET_INTERFACE, USB_CDC_DIF_NUM1, 1>>
  /\ ret = USBD_OK /\ calls = <<>>
  /\ pClassData # NULL
  /\ CmdOpCode = 33 /\ CmdLength = 1

\* C17: the transmit-complete event of instance i sets TxState[i] idle and
\* invokes TxComplete once with instance i's context, and that is its only
\* call: it submits nothing to the link layer.  A submission on instance i's
\* bulk-IN endpoint is made only by an accepted USBD_CDC_TransmitPacket(i),
\* and the one called next after the event is accepted and submits the stored
\* buffer and length.
C17_NoAutoChain ==
  [][\A i \in Inst :
       /\ (OpIs(op', "DataIn") /\ MaskBit(op'[2]) = i /\ pClassData # NULL)
            => /\ TxState'[i] = 0
               /\ calls' = << <<"Itf.TxComplete", AppCtx(i)>> >>
               /\ ret' = USBD_OK
       /\ (\E k \in CallsTo(calls', "USBD_LL_Transmit") : calls'[k][2] = BulkInOf(i))
            => (op' = <<"TransmitPacket", i>> /\ ret' = USBD_OK /\ TxState[i] = 0)
       /\ (OpIs(op, "DataIn") /\ MaskBit(op[2]) = i /\ ret = USBD_OK /\ pClassData # NULL
             /\ op' = <<"TransmitPacket", i>>)
            => /\ ret' = USBD_OK
               /\ calls' = << <<"USBD_LL_Transmit", BulkInOf(i), TxBuffer[i], TxLength[i]>> >>
               /\ TxState'[i] = 1]_vars

\* C17 witness: instance 0's transmission of buffer txB completed; nothing is
\* in flight on instance 0 and the only call was the TxComplete callback.
C17_Witness ==
  /\ op = <<"DataIn", CDC_IN_EP>> /\ ret = USBD_OK
  /\ calls = << <<"Itf.TxComplete", "ctx0">> >>
  /\ TxState[0] = 0 /\ txTrack[0] = "none"
  /\ TxBuffer[0] = "txB" /\ TxLength[0] = 1
  /\ TxState[1] = 1

\* The data-path entry points and events of instance i.
DataPathOf(o, i) ==
  \/ o = <<"TransmitPacket", i>>
  \/ o = <<"ReceivePacket", i>>
  \/ (OpIs(o, "DataIn") /\ MaskBit(o[2]) = i)
  \/ (OpIs(o, "DataOut") /\ MaskBit(o[2]) = i)

ItfCalls == {"Itf.Init", "Itf.DeInit", "Itf.Control", "Itf.Receive", "Itf.TxComplete"}

\* C19: a transmit, a transmit-complete, a receive-ready or a receivePacket of
\* instance i leaves TxState, TxBuffer, TxLength and RxLength of the other
\* instance j and the armed state of j's bulk-OUT endpoint as they were, calls
\* no callback with j's context and touches none of j's endpoints, whatever
\* events of the two instances came before.
C19_InstancesIsolated ==
  [][\A i \in Inst :
       DataPathOf(op', i) =>
         /\ TxState'[1 - i] = TxState[1 - i]
         /\ TxBuffer'[1 - i] = TxBuffer[1 - i]
         /\ TxLength'[1 - i] = TxLength[1 - i]
         /\ RxLength'[1 - i] = RxLength[1 - i]
         /\ (BulkOutOf(1 - i) \in rxArmed') = (BulkOutOf(1 - i) \in rxArmed)
         /\ \A k \in 1 .. Len(calls') :
              IF calls'[k][1] \in ItfCalls
                THEN calls'[k][2] = AppCtx(i)
                ELSE calls'[k][2] \notin {BulkInOf(1 - i), BulkOutOf(1 - i)}]_vars

\* C19 witness: instance 0 received a packet while instance 1 had a transmit
\* in flight, a different received length and its bulk-OUT endpoint armed.
C19_Witness ==
  /\ op = <<"DataOut", CDC_OUT_EP, 1>> /\ ret = USBD_OK
  /\ RxLength[0] = 1 /\ RxLength[1] = 0
  /\ TxState[1] = 1 /\ TxState[0] = 0
  /\ CDC2_OUT_EP \in rxArmed /\ CDC_OUT_EP \notin rxArmed

\* C20: the staged control request is last-writer-wins.  At the
\* control-data-ready event at most one Control callback is made.  If a
\* host-to-device class setup is staged, the callback carries the request code
\* and the length of the setup staged last and the context of the instance
\* named by the index of the last setup packet of any kind, which need not be
\* the instance the request was staged for.  (A staged request code equal to
\* the driver's "no command" value 0xFF is not delivered at all.)
C20_LastWriterWins ==
  [][(op' = <<"EP0_RxReady">> /\ pClassData # NULL)
       => /\ Len(calls') <= 1
          /\ ctlTrack.state = "staged"
               => IF ctlTrack.opcode = CMD_NONE
                    THEN calls' = <<>>
                    ELSE calls' = << <<"Itf.Control", AppCtx(ctlTrack.last),
                                       ctlTrack.opcode, "hcdc->data", ctlTrack.len>> >>]_vars

\* C20 witness: a request staged for instance 1 was delivered to instance 0,
\* named by a setup packet that came in between.
C20_Witness ==
  /\ op = <<"EP0_RxReady">>
  /\ ctlTrack.state = "done" /\ ctlTrack.inst = 1 /\ ctlTrack.last = 0
  /\ calls = << <<"Itf.Control", "ctx0", 33, "hcdc->data", 1>> >>

\* The entry points that work on the block: all but init, deinit and the
\* registration of the callback table.
UsesBlock(o) ==
  o[1] \in {"Setup", "EP0_RxReady", "DataIn", "DataOut", "TransmitPacket",
            "ReceivePacket", "SetTxBuffer", "SetRxBuffer"}

\* C21: while pClassData is NULL no entry point accesses a field of the block
\* (no access through the null pointer is made, and the fields hold what they
\* held) and none invokes an application callback; USBD_CDC_TransmitPacket,
\* USBD_CDC_ReceivePacket, the data-in and the data-out handler return
\* USBD_FAIL and submit nothing to the link layer; the setup and the
\* control-data-ready handler make no call at all.
C21_NoBlockNoAccess ==
  [][(pClassData = NULL /\ UsesBlock(op'))
       => /\ ~fault'
          /\ UNCHANGED hcdcVars
          /\ \A k \in 1 .. Len(calls') : calls'[k][1] \notin ItfCalls
          /\ op'[1] \in {"TransmitPacket", "ReceivePacket", "DataIn", "DataOut"}
               => /\ ret' = USBD_FAIL
                  /\ CallsTo(calls', "USBD_LL_Transmit") = {}
                  /\ CallsTo(calls', "USBD_LL_PrepareReceive") = {}
          /\ op'[1] \in {"Setup", "EP0_RxReady"} => calls' = <<>>]_vars

====
